---- MODULE Spec2Model ----
(***************************************************************************)
(* ThalaNet: the donor matching engine (ml/patientDonorMatching.py) and    *)
(* the emergency alert manager (services/emergencyNotificationService.py). *)
(*                                                                         *)
(* Time is in seconds.  Scores of PatientDonorMatching are exact rationals *)
(* held as integers in units of 1/ScoreScale of a point; the scores of the *)
(* alert manager's simple matching are held in hundredths of a point.      *)
(* Places are points of a line, in km; the geodesic distance of two places *)
(* is the absolute difference.  A missing coordinate is NaN.               *)
(***************************************************************************)
EXTENDS Integers, Sequences, FiniteSets, TLC

(***************************************************************************)
(* Bounds of the model.                                                    *)
(***************************************************************************)
\* rows of one emergency_requests_df
MaxRows == 2
\* largest max_matches tried on find_matches
MaxMatchesBound == 3
\* rows of the donors_df tried on find_matches
MaxPool == 3
\* patients of one batch of batch_match_patients
MaxBatch == 2

(***************************************************************************)
(* Program constants.                                                      *)
(***************************************************************************)
\* detect_emergency_requests: time_diff.total_seconds() > 3600
RecencySeconds == 3600
\* _get_default_config: 'alert_expiry_hours': 24
alert_expiry_hours == 24
\* _cleanup_expired_alerts: alert_expiry_hours * 3600
SecondsPerHour == 3600
\* _get_default_config: 'max_distance_km': 100
max_distance_km == 100
\* PatientDonorMatching.__init__: self.max_distance = 100
max_distance == 100
\* _simple_donor_matching: return matches[:10]
SimpleTopN == 10
\* find_emergency_matches: max_matches: int = 20
EmergencyMaxMatches == 20
\* one point of score, in the units the matching scores are held in: the
\* product of the denominators of the seven factors, over the base score 100
ScoreScale == (2 * 5 * 200 * 5 * 250 * 10 * 10) \div 100
\* one hundredth of a point (round(score, 2)), in the same units
CentScale == ScoreScale \div 100

\* the value of a field a record does not have
Missing == "<missing>"

Max(a, b) == IF a >= b THEN a ELSE b

Abs(x) == IF x >= 0 THEN x ELSE 0 - x

Range(s) == {s[i] : i \in 1..Len(s)}

(***************************************************************************)
(* PatientDonorMatching: compatibility, distance, score.                   *)
(***************************************************************************)
\* a bug: a table that accepts the patient's own type only
blood_compatibilitySameTypeOnly(patient_blood_type) == {patient_blood_type}

\* self.blood_compatibility.get(patient_blood_type, [])
blood_compatibility(patient_blood_type) ==
    CASE patient_blood_type = "O-"  -> {"O-"}
      [] patient_blood_type = "O+"  -> {"O+", "O-"}
      [] patient_blood_type = "A-"  -> {"A-", "O-"}
      [] patient_blood_type = "A+"  -> {"A+", "A-", "O+", "O-"}
      [] patient_blood_type = "B-"  -> {"B-", "O-"}
      [] patient_blood_type = "B+"  -> {"B+", "B-", "O+", "O-"}
      [] patient_blood_type = "AB-" -> {"AB-", "A-", "B-", "O-"}
      [] patient_blood_type = "AB+" -> {"AB+", "AB-", "A+", "A-", "B+", "B-", "O+", "O-"}
      [] OTHER -> {}

check_blood_compatibility(patient_blood_type, donor_blood_type) ==
    donor_blood_type \in blood_compatibility(patient_blood_type)

\* a distance in km, or NaN when a coordinate is missing
NaNDistance == [nan |-> TRUE, km |-> 0]

\* a place: has_coords is FALSE for a missing (NaN) coordinate
calculate_distance(p1, p2) ==
    IF p1.has_coords /\ p2.has_coords
    THEN [nan |-> FALSE, km |-> Abs(p1.pos - p2.pos)]
    ELSE NaNDistance

\* IEEE comparisons: every comparison with NaN is false
DistLE(d, x) == ~d.nan /\ d.km <= x

DistGT(d, x) == ~d.nan /\ d.km > x

get_location_proximity(distance) ==
    IF DistLE(distance, 10) THEN "same_city"
    ELSE IF DistLE(distance, 50) THEN "nearby_city"
    ELSE "far_city"

\* self.urgency_weights.get(urgency, 1.0), times 2
urgency_weight2(urgency) ==
    CASE urgency = "LOW" -> 2
      [] urgency = "MEDIUM" -> 3
      [] urgency = "HIGH" -> 4
      [] urgency = "CRITICAL" -> 6
      [] OTHER -> 2

\* self.distance_weights.get(proximity, 0.5), times 5
distance_weight5(proximity) ==
    CASE proximity = "same_city" -> 5
      [] proximity = "nearby_city" -> 4
      [] proximity = "far_city" -> 3

\* a bug: no bonus for a donor without health conditions
health_factor5NoBonus(donor) == IF donor.health_conditions = "None" THEN 5 ELSE 4

\* 1.2 if health_conditions == 'None' else 0.8, times 5
health_factor5(donor) == IF donor.health_conditions = "None" THEN 6 ELSE 4

\* a bug: the ages 18 and 45 fall outside the preferred range
age_factor10Exclusive(donor) ==
    IF 18 < donor.age /\ donor.age < 45 THEN 11
    ELSE IF donor.age > 65 THEN 9
    ELSE 10

\* 1.1 for 18 <= age <= 45, 0.9 for age > 65, else 1, times 10
age_factor10(donor) ==
    IF 18 <= donor.age /\ donor.age <= 45 THEN 11
    ELSE IF donor.age > 65 THEN 9
    ELSE 10

\* a bug: the bonus starts at 5 days
recency_factor10EarlyBonus(donor) ==
    IF donor.days_since < 0 THEN 10
    ELSE IF donor.days_since >= 5 THEN 12
    ELSE IF donor.days_since < 30 THEN 3
    ELSE 10

\* 1.2 for days_since >= 56, 0.3 for days_since < 30, else 1, times 10;
\* a donor without last_donation_date has days_since = -1 here
recency_factor10(donor) ==
    IF donor.days_since < 0 THEN 10
    ELSE IF donor.days_since >= 56 THEN 12
    ELSE IF donor.days_since < 30 THEN 3
    ELSE 10

\* patient.get('urgency_level', 'MEDIUM')
UrgencyOfPatient(patient) ==
    IF patient.urgency_level = Missing THEN "MEDIUM" ELSE patient.urgency_level

\* the product of the factors after the compatibility check, in 1/ScoreScale
CompatibleScore(patient, donor, distance) ==
    urgency_weight2(UrgencyOfPatient(patient))
      * distance_weight5(get_location_proximity(distance))
      * (100 + donor.avail_pct)
      * health_factor5(donor)
      * (200 + donor.resp_pct)
      * age_factor10(donor)
      * recency_factor10(donor)

\* a bug: no early return for an incompatible pair
IncompatibleScoreNoReturn(patient, donor, distance) ==
    CompatibleScore(patient, donor, distance)

IncompatibleScore(patient, donor, distance) == 0

calculate_matching_score(patient, donor, distance) ==
    IF ~check_blood_compatibility(patient.blood_type_required, donor.blood_type)
    THEN IncompatibleScore(patient, donor, distance)
    ELSE Max(0, CompatibleScore(patient, donor, distance))

\* round(score, 2): to the nearest hundredth, ties to even; in hundredths
RoundCents(score) ==
    LET q == score \div CentScale
        r == score % CentScale
    IN  IF 2 * r > CentScale THEN q + 1
        ELSE IF 2 * r < CentScale THEN q
        ELSE IF q % 2 = 0 THEN q ELSE q + 1

(***************************************************************************)
(* PatientDonorMatching.find_matches and find_emergency_matches.           *)
(***************************************************************************)
\* s[:n] of Python
PySlice(s, n) ==
    IF n >= 0
    THEN SubSeq(s, 1, IF n < Len(s) THEN n ELSE Len(s))
    ELSE SubSeq(s, 1, Max(0, Len(s) + n))

\* the place of m in a list sorted by matching_score, highest first: after
\* every entry whose score is not lower (list.sort is stable)
SortsBefore(a, b) == a.matching_score >= b.matching_score

RECURSIVE InsertByScore(_, _)
InsertByScore(sorted, m) ==
    IF sorted = <<>> THEN <<m>>
    ELSE IF SortsBefore(Head(sorted), m)
         THEN <<Head(sorted)>> \o InsertByScore(Tail(sorted), m)
         ELSE <<m>> \o sorted

\* matches.sort(key=lambda x: x['matching_score'], reverse=True)
RECURSIVE SortByScore(_)
SortByScore(matches) ==
    IF matches = <<>> THEN <<>>
    ELSE InsertByScore(SortByScore(SubSeq(matches, 1, Len(matches) - 1)),
                       matches[Len(matches)])

\* the basic criteria of find_matches
IsAvailableDonor(donor) ==
    /\ donor.availability_status = "Available"
    /\ donor.health_conditions # "HIV/AIDS"
    /\ donor.health_conditions # "Hepatitis"

PlaceOf(x) == [has_coords |-> x.has_coords, pos |-> x.pos]

\* score >= min_score
MeetsMinScore(score, min_score) == score >= min_score

\* the match dictionary of one donor
MatchEntry(patient, donor, distance, score) ==
    [donor_id |-> donor.donor_id,
     blood_type |-> donor.blood_type,
     health_conditions |-> donor.health_conditions,
     distance_km |-> distance,
     matching_score |-> RoundCents(score),
     urgency_level |-> UrgencyOfPatient(patient)]

\* the loop body of find_matches for one available donor: <<>> or one match
MatchesOfDonor(patient, donor, min_score) ==
    LET distance == calculate_distance(PlaceOf(patient), PlaceOf(donor))
        score == calculate_matching_score(patient, donor, distance)
    IN  IF DistGT(distance, max_distance) THEN <<>>
        ELSE IF MeetsMinScore(score, min_score)
             THEN <<MatchEntry(patient, donor, distance, score)>>
             ELSE <<>>

RECURSIVE CollectMatches(_, _, _)
CollectMatches(patient, donors, min_score) ==
    IF donors = <<>> THEN <<>>
    ELSE MatchesOfDonor(patient, Head(donors), min_score)
           \o CollectMatches(patient, Tail(donors), min_score)

\* matches[:max_matches]
TopMatches(matches, max_matches) == PySlice(matches, max_matches)

\* a bug: the list is never sorted
RankMatchesUnsorted(matches) == matches

RankMatches(matches) == SortByScore(matches)

find_matches(patient, donors_df, max_matches, min_score) ==
    LET available_donors == SelectSeq(donors_df, IsAvailableDonor)
    IN  IF available_donors = <<>> THEN <<>>
        ELSE TopMatches(RankMatches(CollectMatches(patient, available_donors, min_score)),
                        max_matches)

\* a bug: immediate_contact without the limit of 25 km
IsCriticalMatchAnyDistance(m) == m.urgency_level = "CRITICAL"

IsCriticalMatch(m) == m.urgency_level = "CRITICAL" /\ DistLE(m.distance_km, 25)

IsHighPriorityMatch(m) == m.matching_score >= 150 * 100 /\ DistLE(m.distance_km, 50)

IsStandardMatch(m) == m.matching_score >= 100 * 100

find_emergency_matches(emergency_request, donors_df) ==
    LET patient == [blood_type_required |-> emergency_request.blood_type_needed,
                    urgency_level |-> emergency_request.urgency_level,
                    has_coords |-> emergency_request.has_coords,
                    pos |-> emergency_request.pos]
        matches == find_matches(patient, donors_df, EmergencyMaxMatches, 30 * ScoreScale)
    IN  [immediate_contact |-> PySlice(SelectSeq(matches, IsCriticalMatch), 3),
         high_priority |-> PySlice(SelectSeq(matches, IsHighPriorityMatch), 5),
         backup_options |-> PySlice(SelectSeq(matches, IsStandardMatch), 10),
         total_matches |-> Len(matches)]

(***************************************************************************)
(* PatientDonorMatching.batch_match_patients: the dictionary it returns,   *)
(* patient_id -> entry, and the total it prints.                           *)
(***************************************************************************)
\* all_matches[patient['patient_id']] = {...}
PutMatches(all_matches, patient, matches) ==
    [k \in DOMAIN all_matches \cup {patient.patient_id} |->
        IF k = patient.patient_id
        THEN [patient_info |-> [blood_type_required |-> patient.blood_type_required,
                                urgency_level |-> patient.urgency_level],
              matches |-> matches,
              match_count |-> Len(matches)]
        ELSE all_matches[k]]

RECURSIVE BatchLoop(_, _, _, _, _)
BatchLoop(patients, donors_df, max_matches_per_patient, all_matches, total_matches) ==
    IF patients = <<>>
    THEN [returned |-> all_matches, printed_total |-> total_matches]
    ELSE LET patient == Head(patients)
             matches == find_matches(patient, donors_df, max_matches_per_patient,
                                     40 * ScoreScale)
         IN  BatchLoop(Tail(patients), donors_df, max_matches_per_patient,
                       PutMatches(all_matches, patient, matches),
                       total_matches + Len(matches))

batch_match_patients(patients_df, donors_df, max_matches_per_patient) ==
    BatchLoop(patients_df, donors_df, max_matches_per_patient, <<>>, 0)

(***************************************************************************)
(* The inputs of the alert manager: rows of emergency_requests_df and      *)
(* donors_df frames.                                                       *)
(***************************************************************************)
RequestRows ==
    << [request_id |-> "REQ1", urgency_level |-> "CRITICAL", timestamp |-> 0,
        blood_type_needed |-> "A+", has_coords |-> TRUE, pos |-> 0],
       [request_id |-> "REQ2", urgency_level |-> "HIGH", timestamp |-> 3600,
        blood_type_needed |-> "A+", has_coords |-> FALSE, pos |-> 0],
       [request_id |-> "REQ3", urgency_level |-> "LOW", timestamp |-> 3600,
        blood_type_needed |-> "A+", has_coords |-> TRUE, pos |-> 0],
       [request_id |-> "REQ4", urgency_level |-> Missing, timestamp |-> 3600,
        blood_type_needed |-> "A+", has_coords |-> TRUE, pos |-> 0],
       [request_id |-> "REQ5", urgency_level |-> "HIGH", timestamp |-> 86400,
        blood_type_needed |-> "O-", has_coords |-> TRUE, pos |-> 10] >>

\* the frames of at most MaxRows rows
RequestFrames ==
    UNION {[1..n -> Range(RequestRows)] : n \in 0..MaxRows}

Donor(id, bt, status, health, pos, age, avail, resp, days) ==
    [donor_id |-> id, blood_type |-> bt, availability_status |-> status,
     health_conditions |-> health, has_coords |-> TRUE, pos |-> pos, age |-> age,
     avail_pct |-> avail, resp_pct |-> resp, days_since |-> days]

D1 == Donor("D1", "A+", "Available", "None", 5, 30, 90, 80, 70)

D2 == Donor("D2", "O-", "Available", "None", 20, 50, 50, 50, 40)

D3 == Donor("D3", "A+", "Available", "Diabetes", 0, 70, 50, 50, 10)

D4 == Donor("D4", "A+", "Unavailable", "None", 0, 30, 90, 80, 70)

D5 == Donor("D5", "A+", "Available", "None", 150, 30, 90, 80, 70)

D6 == Donor("D6", "O-", "Available", "Hepatitis", 0, 30, 90, 80, 70)

\* a donors_df: its rows, and whether it has the columns beyond those the
\* simple matching reads (age, gender)
DonorFrames ==
    { [rows |-> <<>>, has_gender |-> TRUE],
      [rows |-> <<D1, D2, D3>>, has_gender |-> TRUE],
      [rows |-> <<D4, D5, D6>>, has_gender |-> TRUE],
      [rows |-> <<D1, D2, D3>>, has_gender |-> FALSE] }

\* self.notification_channels
notification_channels == {"email", "sms", "whatsapp", "push"}

\* the configurations of the manager: config['notification_channels'] (the
\* default first) and self.matching_system ("None", the value __init__ sets)
ServiceConfigs ==
    { [channels |-> <<"email", "sms">>, system |-> "None"],
      [channels |-> <<"email", "sms", "whatsapp">>, system |-> "PatientDonorMatching"],
      [channels |-> <<"pager">>, system |-> "None"] }

\* alert.matched_donors: None, or a list
NoDonors == [is_none |-> TRUE, list |-> <<>>]

SomeDonors(l) == [is_none |-> FALSE, list |-> l]

(***************************************************************************)
(* The state of one EmergencyNotificationService and of the call of        *)
(* process_emergency_requests in progress on it.                           *)
(***************************************************************************)
VARIABLES
    now,              \* datetime.now(), in seconds
    config_channels,  \* self.config['notification_channels']
    matching_system,  \* self.matching_system: "None" or "PatientDonorMatching"
    active_alerts,    \* self.active_alerts: request_id -> EmergencyAlert
    alert_history,    \* self.alert_history
    pc,               \* where process_emergency_requests stands
    new_alerts,       \* new_alerts of the call of process_emergency_requests
    idx,              \* the alert of new_alerts the loop stands at
    donors_df,        \* the donors_df of the call
    in_event_loop,    \* whether the caller runs inside an asyncio event loop
    matched,          \* matched_donors of the alert being dispatched
    tasks,            \* notification_tasks of the alert being dispatched
    pass_log,         \* what happened to each alert of the call so far
    hist_mark,        \* Len(alert_history) when the call started
    detect_log,       \* the rows the detection of the call passed over
    m_in,             \* the arguments of a call on PatientDonorMatching
    m_out,            \* what that call returned
    threads,          \* the threads inside process_emergency_requests
    owner             \* request_id -> the thread whose alert object the map holds

alert_vars == <<now, config_channels, matching_system, active_alerts,
                alert_history, pc, new_alerts, idx, donors_df, in_event_loop,
                matched, tasks, pass_log, hist_mark, detect_log>>

match_vars == <<m_in, m_out>>

thread_vars == <<threads, owner>>

vars == <<alert_vars, match_vars, thread_vars>>

\* the local state of a call of process_emergency_requests, outside a call
NoFrame == [rows |-> <<>>, has_gender |-> TRUE]

NoCall == [op |-> "none"]

(***************************************************************************)
(* detect_emergency_requests                                               *)
(***************************************************************************)
\* request.get('urgency_level', 'MEDIUM')
UrgencyOf(request) ==
    IF request.urgency_level = Missing THEN "MEDIUM" ELSE request.urgency_level

\* a bug: no check of the tracked requests
AlreadyTrackedNever(request_id, alerts) == FALSE

\* if request_id in self.active_alerts: continue
AlreadyTracked(request_id, alerts) == request_id \in DOMAIN alerts

\* a bug: the limit of the window is excluded
TooOldInclusive(time_diff) == time_diff >= RecencySeconds

\* a bug: no request is too old
TooOldNever(time_diff) == FALSE

\* if time_diff.total_seconds() > 3600: continue
TooOld(time_diff) == time_diff > RecencySeconds

\* if urgency in ['HIGH', 'CRITICAL']
IsUrgent(urgency) == urgency \in {"HIGH", "CRITICAL"}

\* f"ALERT_{len(self.active_alerts) + 1:06d}", as its number
NextAlertId(alerts) == Cardinality(DOMAIN alerts) + 1

NewAlert(request, alerts) ==
    [alert_id |-> NextAlertId(alerts),
     request_id |-> request.request_id,
     blood_type_needed |-> request.blood_type_needed,
     urgency_level |-> UrgencyOf(request),
     has_coords |-> request.has_coords,
     pos |-> request.pos,
     timestamp |-> request.timestamp,
     status |-> "active",
     matched_donors |-> NoDonors,
     notification_sent |-> FALSE]

\* self.active_alerts[request_id] = alert
PutAlert(alerts, alert) ==
    [r \in DOMAIN alerts \cup {alert.request_id} |->
        IF r = alert.request_id THEN alert ELSE alerts[r]]

\* which rows the loop passed over, by the continue that passed over them
NoSkips == [tracked |-> {}, old |-> {}, not_urgent |-> {}]

\* the loop over the rows: the alerts after it, the list it returns (the
\* request ids of the new alerts, which are the objects in self.active_alerts)
\* and the rows it passed over
RECURSIVE DetectRows(_, _, _, _, _)
DetectRows(rows, alerts, new, skips, current_time) ==
    IF rows = <<>> THEN [alerts |-> alerts, new |-> new, skips |-> skips]
    ELSE LET request == Head(rows)
         IN  IF AlreadyTracked(request.request_id, alerts)
             THEN DetectRows(Tail(rows), alerts, new,
                             [skips EXCEPT !.tracked = @ \cup {request.request_id}],
                             current_time)
             ELSE IF TooOld(current_time - request.timestamp)
             THEN DetectRows(Tail(rows), alerts, new,
                             [skips EXCEPT !.old = @ \cup {request.request_id}],
                             current_time)
             ELSE IF IsUrgent(UrgencyOf(request))
             THEN DetectRows(Tail(rows), PutAlert(alerts, NewAlert(request, alerts)),
                             Append(new, request.request_id), skips, current_time)
             ELSE DetectRows(Tail(rows), alerts, new,
                             [skips EXCEPT !.not_urgent = @ \cup {request.request_id}],
                             current_time)

detect_emergency_requests(emergency_requests_df, alerts, current_time) ==
    DetectRows(emergency_requests_df, alerts, <<>>, NoSkips, current_time)

(***************************************************************************)
(* _cleanup_expired_alerts                                                 *)
(***************************************************************************)
\* a bug: an alert expires at the limit already
IsExpiredInclusive(alert, current_time) ==
    current_time - alert.timestamp >= alert_expiry_hours * SecondsPerHour

\* (current_time - alert.timestamp).total_seconds() > alert_expiry_hours * 3600
IsExpired(alert, current_time) ==
    current_time - alert.timestamp > alert_expiry_hours * SecondsPerHour

cleanup_expired_alerts(alerts, current_time) ==
    LET expired_alerts == {r \in DOMAIN alerts : IsExpired(alerts[r], current_time)}
    IN  [r \in DOMAIN alerts \ expired_alerts |-> alerts[r]]

(***************************************************************************)
(* find_matching_donors_for_alert and _simple_donor_matching: the list of  *)
(* matches, or raised = TRUE when an exception leaves the function.        *)
(***************************************************************************)
IsSimpleCompatible(alert, donor) ==
    /\ donor.blood_type = alert.blood_type_needed
    /\ donor.availability_status = "Available"
    /\ donor.health_conditions = "None"

\* geodesic((lat1, lon1), (lat2, lon2)) raises ValueError for a coordinate
\* that is not finite, and _calculate_distance catches ImportError only
DistanceRaises(alert, donor) == ~alert.has_coords \/ ~donor.has_coords

\* if distance <= self.config['max_distance_km']
WithinMaxDistance(distance) == DistLE(distance, max_distance_km)

\* round(100 - (distance / max_distance_km) * 50, 2), in hundredths
SimpleScore(distance) == 100 * 100 - (distance.km * 50 * 100) \div max_distance_km

SimpleMatchEntry(alert, donor, distance) ==
    [donor_id |-> donor.donor_id,
     blood_type |-> donor.blood_type,
     health_conditions |-> donor.health_conditions,
     distance_km |-> distance,
     matching_score |-> SimpleScore(distance)]

RECURSIVE SimpleCollect(_, _)
SimpleCollect(alert, donors) ==
    IF donors = <<>> THEN <<>>
    ELSE LET donor == Head(donors)
             distance == calculate_distance(PlaceOf(alert), PlaceOf(donor))
         IN  (IF WithinMaxDistance(distance)
              THEN <<SimpleMatchEntry(alert, donor, distance)>> ELSE <<>>)
               \o SimpleCollect(alert, Tail(donors))

simple_donor_matching(alert, donors) ==
    LET Compatible(donor) == IsSimpleCompatible(alert, donor)
        compatible_donors == SelectSeq(donors.rows, Compatible)
    IN  IF compatible_donors = <<>> THEN [raised |-> FALSE, matches |-> <<>>]
        ELSE IF \E i \in 1..Len(compatible_donors) :
                    DistanceRaises(alert, compatible_donors[i])
        THEN [raised |-> TRUE, matches |-> <<>>]
        ELSE [raised |-> FALSE,
              matches |-> PySlice(SortByScore(SimpleCollect(alert, compatible_donors)),
                                  SimpleTopN)]

\* the request find_matching_donors_for_alert hands to the matching system
EmergencyRequestOf(alert) ==
    [blood_type_needed |-> alert.blood_type_needed,
     urgency_level |-> alert.urgency_level,
     has_coords |-> alert.has_coords,
     pos |-> alert.pos]

\* find_matches builds each match from donor['age'] and donor['gender']: a
\* frame without these columns raises KeyError at the first match
MatchingSystemRaises(alert, donors) ==
    /\ ~donors.has_gender
    /\ CollectMatches([blood_type_required |-> alert.blood_type_needed,
                       urgency_level |-> alert.urgency_level,
                       has_coords |-> alert.has_coords, pos |-> alert.pos],
                      SelectSeq(donors.rows, IsAvailableDonor), 30 * ScoreScale) # <<>>

\* matches.get('immediate_contact', []) + matches.get('high_priority', [])
EmergencyCandidates(matches) == matches.immediate_contact \o matches.high_priority

find_matching_donors_for_alert(alert, donors, system) ==
    IF system = "None" THEN simple_donor_matching(alert, donors)
    ELSE IF MatchingSystemRaises(alert, donors)
    THEN simple_donor_matching(alert, donors)
    ELSE [raised |-> FALSE,
          matches |-> EmergencyCandidates(
                          find_emergency_matches(EmergencyRequestOf(alert), donors.rows))]

(***************************************************************************)
(* send_emergency_notifications and _send_notification_async               *)
(***************************************************************************)
IsKnownChannel(channel) == channel \in notification_channels

\* one task per configured channel that is in self.notification_channels
NotificationTasks(channels) ==
    LET known == SelectSeq(channels, IsKnownChannel)
    IN  [i \in 1..Len(known) |->
            [channel |-> known[i], state |-> "pending", sink_calls |-> 0,
             sink_returned |-> FALSE, logged |-> "none"]]

\* result = await <the bool the sink returned>: a bool is not awaitable, so
\* the await raises TypeError, whatever the sink returned
AwaitOutcome(sink_returned) == "TypeError"

\* the body of _send_notification_async: the sink is called once; what the
\* await raises is caught and logged
RunTask(task, sink_returned) ==
    [task EXCEPT !.state = "done",
                 !.sink_calls = @ + 1,
                 !.sink_returned = sink_returned,
                 !.logged = IF AwaitOutcome(sink_returned) = "value"
                            THEN "info" ELSE "error"]

\* a bug: the alert keeps the first candidate only
MarkNotifiedFirstOnly(alert, matched_donors) ==
    [alert EXCEPT !.notification_sent = TRUE,
                  !.matched_donors = SomeDonors(<<Head(matched_donors)>>)]

\* alert.notification_sent = True; alert.matched_donors = matched_donors
MarkNotified(alert, matched_donors) ==
    [alert EXCEPT !.notification_sent = TRUE,
                  !.matched_donors = SomeDonors(matched_donors)]

\* except Exception: alert.status = 'error'
MarkError(alert) == [alert EXCEPT !.status = "error"]

\* self.alert_history.append({...})
HistoryEntry(alert, matched_donors) ==
    [alert_id |-> alert.alert_id,
     timestamp |-> alert.timestamp,
     status |-> "processed",
     matched_donors_count |-> Len(matched_donors)]

\* what the except branch of the loop adds to alert_history
HistoryAfterFault(history, alert) == history

\* a bug: no candidates counts as a failure
AfterNoCandidatesError(alert) == [alert EXCEPT !.status = "error"]

\* else: logger.warning(...): the alert when nothing matched
AfterNoCandidates(alert) == alert

\* the loop of process_emergency_requests after the alert at i of n
PcAfterAlert(i, n) == IF i < n THEN "match" ELSE "cleanup"

\* a bug: the try encloses the loop, so the first exception ends it
PcAfterFaultAbort(i, n) == "cleanup"

\* the same after the except branch, which ends the iteration only
PcAfterFault(i, n) == PcAfterAlert(i, n)

\* a bug: what a task raises is not caught inside it and the gather gives
\* up, so the tasks after it end without calling their sinks
TasksAfterRunAborting(all_tasks, i, sink_returned) ==
    [j \in 1..Len(all_tasks) |->
        IF j = i THEN RunTask(all_tasks[i], sink_returned)
        ELSE IF j > i /\ AwaitOutcome(sink_returned) # "value"
        THEN [all_tasks[j] EXCEPT !.state = "done"]
        ELSE all_tasks[j]]

\* the tasks after the task at i has run: what it raises is caught inside
\* it, so no other task is touched
TasksAfterRun(all_tasks, i, sink_returned) ==
    [all_tasks EXCEPT ![i] = RunTask(all_tasks[i], sink_returned)]

IdxAfterAlert(i, n) == IF i < n THEN i + 1 ELSE i

\* what the log of a call keeps of a finished task
TaskSummary(task) ==
    [channel |-> task.channel, sink_calls |-> task.sink_calls,
     sink_returned |-> task.sink_returned, logged |-> task.logged]

LogEntry(alert, outcome, candidates, done_tasks) ==
    [request_id |-> alert.request_id, outcome |-> outcome,
     candidates |-> candidates,
     tasks |-> [i \in 1..Len(done_tasks) |-> TaskSummary(done_tasks[i])]]

(***************************************************************************)
(* The calls on the service.  A call of process_emergency_requests runs in *)
(* steps: detection, then for each new alert matching, the channel tasks   *)
(* in the order asyncio starts them, the marking and the history entry,    *)
(* and the cleanup at the end.  The clock stands still during one call.    *)
(***************************************************************************)
\* the instants the clock is read at: the start, and each limit of the
\* recency window and of the expiry of an alert of timestamp 0, and the
\* second after it
Instants ==
    {0, RecencySeconds, RecencySeconds + 1,
     alert_expiry_hours * SecondsPerHour, alert_expiry_hours * SecondsPerHour + 1}

InitService ==
    /\ now = 0
    /\ \E c \in ServiceConfigs : /\ config_channels = c.channels
                                 /\ matching_system = c.system
    /\ active_alerts = <<>>
    /\ alert_history = <<>>
    /\ pc = "idle"
    /\ new_alerts = <<>>
    /\ idx = 0
    /\ donors_df = NoFrame
    /\ in_event_loop = FALSE
    /\ matched = <<>>
    /\ tasks = <<>>
    /\ pass_log = <<>>
    /\ hist_mark = 0
    /\ detect_log = NoSkips

\* no thread is inside process_emergency_requests
NoThreads == <<>>

Init ==
    /\ InitService
    /\ m_in = NoCall
    /\ m_out = NoCall
    /\ threads = NoThreads
    /\ owner = <<>>

call_vars == <<idx, donors_df, in_event_loop, matched, tasks, pass_log, hist_mark,
               detect_log>>

Tick(t) ==
    /\ pc = "idle"
    /\ t > now
    /\ now' = t
    /\ UNCHANGED <<config_channels, matching_system, active_alerts, alert_history,
                   pc, new_alerts, call_vars, match_vars, thread_vars>>

\* a call of detect_emergency_requests whose caller drops the list returned
DetectCall(emergency_requests_df) ==
    /\ pc = "idle"
    /\ LET res == detect_emergency_requests(emergency_requests_df, active_alerts, now)
       IN  active_alerts' = res.alerts
    /\ UNCHANGED <<now, config_channels, matching_system, alert_history, pc,
                   new_alerts, call_vars, match_vars, thread_vars>>

\* a call of _cleanup_expired_alerts
CleanupCall ==
    /\ pc = "idle"
    /\ active_alerts' = cleanup_expired_alerts(active_alerts, now)
    /\ UNCHANGED <<now, config_channels, matching_system, alert_history, pc,
                   new_alerts, call_vars, match_vars, thread_vars>>

\* process_emergency_requests up to the loop: detection, and the return when
\* nothing new was detected
ProcessStart(emergency_requests_df) ==
    /\ pc = "idle"
    /\ LET res == detect_emergency_requests(emergency_requests_df, active_alerts, now)
       IN  /\ active_alerts' = res.alerts
           /\ new_alerts' = res.new
           /\ IF res.new = <<>>
              THEN /\ pc' = "idle"
                   /\ UNCHANGED call_vars
              ELSE /\ pc' = "loop"
                   /\ idx' = 1
                   /\ pass_log' = <<>>
                   /\ hist_mark' = Len(alert_history)
                   /\ detect_log' = res.skips
                   /\ UNCHANGED <<donors_df, in_event_loop, matched, tasks>>
    /\ UNCHANGED <<now, config_channels, matching_system, alert_history,
                   match_vars, thread_vars>>

\* the loop starts: the donors_df argument of the call and the context of
\* the caller (inside a running asyncio event loop or not) are first read
\* here, so the model draws them here
LoopEntry(donors, in_loop) ==
    /\ pc = "loop"
    /\ pc' = "match"
    /\ donors_df' = donors
    /\ in_event_loop' = in_loop
    /\ detect_log' = NoSkips
    /\ UNCHANGED <<now, config_channels, matching_system, active_alerts,
                   alert_history, new_alerts, idx, matched, tasks, pass_log,
                   hist_mark, match_vars, thread_vars>>

\* the alert the loop stands at
CurrentAlert == active_alerts[new_alerts[idx]]

SetCurrent(alert) == [active_alerts EXCEPT ![new_alerts[idx]] = alert]

\* the loop body up to asyncio.run: matching; the except branch when it
\* raises, or when asyncio.run raises RuntimeError inside a running loop;
\* the history entry when nothing matched
MatchStep ==
    /\ pc = "match"
    /\ LET alert == CurrentAlert
           res == find_matching_donors_for_alert(alert, donors_df, matching_system)
       IN  IF res.raised \/ (res.matches # <<>> /\ in_event_loop)
           THEN /\ active_alerts' = SetCurrent(MarkError(alert))
                /\ alert_history' = HistoryAfterFault(alert_history, alert)
                /\ pass_log' = Append(pass_log, LogEntry(alert, "error", res.matches, <<>>))
                /\ pc' = PcAfterFault(idx, Len(new_alerts))
                /\ idx' = IdxAfterAlert(idx, Len(new_alerts))
                /\ UNCHANGED <<matched, tasks>>
           ELSE IF res.matches # <<>>
           THEN /\ matched' = res.matches
                /\ tasks' = NotificationTasks(config_channels)
                /\ pc' = "gather"
                /\ UNCHANGED <<active_alerts, alert_history, pass_log, idx>>
           ELSE /\ active_alerts' = SetCurrent(AfterNoCandidates(alert))
                /\ alert_history' = Append(alert_history, HistoryEntry(alert, <<>>))
                /\ pass_log' = Append(pass_log, LogEntry(alert, "no_candidates", <<>>, <<>>))
                /\ pc' = PcAfterAlert(idx, Len(new_alerts))
                /\ idx' = IdxAfterAlert(idx, Len(new_alerts))
                /\ UNCHANGED <<matched, tasks>>
    /\ UNCHANGED <<now, config_channels, matching_system, new_alerts,
                   donors_df, in_event_loop, hist_mark, detect_log, match_vars, thread_vars>>

PendingTasks == {i \in 1..Len(tasks) : tasks[i].state = "pending"}

\* a bug: the wait ends when the first task has finished
GatherDoneFirstCompleted(all_tasks) ==
    all_tasks = <<>> \/ \E k \in 1..Len(all_tasks) : all_tasks[k].state = "done"

\* await asyncio.gather(*notification_tasks, return_exceptions=True) returns
\* when every task has finished; without tasks it is not awaited
GatherDone(all_tasks) ==
    \A k \in 1..Len(all_tasks) : all_tasks[k].state = "done"

\* asyncio.gather: the next task, in the order the tasks were created
TaskStep(sink_returned) ==
    /\ pc = "gather"
    /\ PendingTasks # {}
    /\ \A k \in 1..Len(tasks) : tasks[k].state # "hung"
    /\ LET i == CHOOSE j \in PendingTasks : \A k \in PendingTasks : j <= k
       IN  tasks' = TasksAfterRun(tasks, i, sink_returned)
    /\ UNCHANGED <<now, config_channels, matching_system, active_alerts,
                   alert_history, pc, new_alerts, idx, donors_df, in_event_loop,
                   matched, pass_log, hist_mark, detect_log, match_vars, thread_vars>>

\* after the gather: the alert is marked, and the loop body adds the history
\* entry and goes on
FinishDispatch ==
    /\ pc = "gather"
    /\ GatherDone(tasks)
    /\ LET alert == MarkNotified(CurrentAlert, matched)
       IN  /\ active_alerts' = SetCurrent(alert)
           /\ alert_history' = Append(alert_history, HistoryEntry(alert, matched))
           /\ pass_log' = Append(pass_log, LogEntry(alert, "dispatched", matched, tasks))
    /\ pc' = PcAfterAlert(idx, Len(new_alerts))
    /\ idx' = IdxAfterAlert(idx, Len(new_alerts))
    /\ matched' = <<>>
    /\ tasks' = <<>>
    /\ UNCHANGED <<now, config_channels, matching_system, new_alerts,
                   donors_df, in_event_loop, hist_mark, detect_log, match_vars, thread_vars>>

\* the end of process_emergency_requests: self._cleanup_expired_alerts()
CleanupStep ==
    /\ pc = "cleanup"
    /\ active_alerts' = cleanup_expired_alerts(active_alerts, now)
    /\ pc' = "idle"
    /\ idx' = 0
    /\ donors_df' = NoFrame
    /\ in_event_loop' = FALSE
    /\ pass_log' = <<>>
    /\ hist_mark' = 0
    /\ new_alerts' = <<>>
    /\ UNCHANGED detect_log
    /\ UNCHANGED <<now, config_channels, matching_system, alert_history,
                   matched, tasks, match_vars, thread_vars>>

Next ==
    \/ \E t \in Instants : Tick(t)
    \/ \E df \in RequestFrames : DetectCall(df)
    \/ CleanupCall
    \/ \E df \in RequestFrames : ProcessStart(df)
    \/ \E donors \in DonorFrames, in_loop \in BOOLEAN : LoopEntry(donors, in_loop)
    \/ MatchStep
    \/ \E sink_returned \in BOOLEAN : TaskStep(sink_returned)
    \/ FinishDispatch
    \/ CleanupStep

Spec == Init /\ [][Next]_vars

(***************************************************************************)
(* The service with a sink that may not return.  The sinks are plain       *)
(* functions called inside the task (line 307): while one does not return  *)
(* it holds the event loop, no other task runs, and the gather (line 296), *)
(* which has no timeout, does not return.                                  *)
(***************************************************************************)
TaskHang ==
    /\ pc = "gather"
    /\ PendingTasks # {}
    /\ \A k \in 1..Len(tasks) : tasks[k].state # "hung"
    /\ LET i == CHOOSE j \in PendingTasks : \A k \in PendingTasks : j <= k
       IN  tasks' = [tasks EXCEPT ![i].state = "hung", ![i].sink_calls = @ + 1]
    /\ UNCHANGED <<now, config_channels, matching_system, active_alerts,
                   alert_history, pc, new_alerts, idx, donors_df, in_event_loop,
                   matched, pass_log, hist_mark, detect_log, match_vars, thread_vars>>

\* the steps of send_emergency_notifications from the gather on
DispatchStep ==
    \/ \E sink_returned \in BOOLEAN : TaskStep(sink_returned)
    \/ FinishDispatch

NextHang == Next \/ TaskHang

SpecHang == Init /\ [][NextHang]_vars

(***************************************************************************)
(* Two threads calling process_emergency_requests on one manager.  The     *)
(* function is synchronous and the class holds no lock, so the threads     *)
(* interleave between the statements that read and write                   *)
(* self.active_alerts: the membership test (line 100), the insertion       *)
(* (lines 115-129), the creation of the iterator of the cleanup and its    *)
(* loop (line 407), and each del (line 412).  The loop over the new alerts *)
(* (lines 373-397) is one step: it reads the map nowhere.                  *)
(***************************************************************************)
Threads == {1, 2}

\* the request frames the threads are called with
ThreadRows == {r \in Range(RequestRows) : r.request_id \in {"REQ1", "REQ2"}}

\* the instants the clock is read at: the start, and the first second at
\* which an alert of timestamp 0 has expired
ThreadInstants == {0, alert_expiry_hours * SecondsPerHour + 1}

ThreadFrames == UNION {[1..n -> ThreadRows] : n \in 0..MaxRows}

IdleThread ==
    [pc |-> "idle", rows |-> <<>>, new |-> <<>>, current_time |-> 0,
     scan_size |-> 0, expired |-> {}, dispatched |-> <<>>]

InitThreads ==
    /\ InitService
    /\ m_in = NoCall
    /\ m_out = NoCall
    /\ threads = [t \in Threads |-> IdleThread]
    /\ owner = <<>>

service_vars == <<config_channels, matching_system, pc, new_alerts, call_vars,
                  match_vars>>

\* the thread enters process_emergency_requests and detect_emergency_requests:
\* current_time = datetime.now()
ThreadStart(t, emergency_requests_df) ==
    /\ threads[t].pc = "idle"
    /\ threads' = [threads EXCEPT ![t].pc = "check",
                                  ![t].rows = emergency_requests_df,
                                  ![t].current_time = now]
    /\ UNCHANGED <<now, active_alerts, alert_history, owner, service_vars>>

\* the row the detection of the thread stands at passes the three tests
PassesTests(request, alerts, current_time) ==
    /\ ~AlreadyTracked(request.request_id, alerts)
    /\ ~TooOld(current_time - request.timestamp)
    /\ IsUrgent(UrgencyOf(request))

\* lines 96-112 for one row: the membership test on the map and the tests
\* on the row
ThreadCheck(t) ==
    /\ threads[t].pc = "check"
    /\ threads[t].rows # <<>>
    /\ threads' = IF PassesTests(Head(threads[t].rows), active_alerts,
                                 threads[t].current_time)
                  THEN [threads EXCEPT ![t].pc = "insert"]
                  ELSE [threads EXCEPT ![t].rows = Tail(@)]
    /\ UNCHANGED <<now, active_alerts, alert_history, owner, service_vars>>

PutOwner(owners, request_id, t) ==
    [r \in DOMAIN owners \cup {request_id} |->
        IF r = request_id THEN t ELSE owners[r]]

\* lines 115-129 for the row: the alert is created, appended to new_alerts
\* and stored in the map, over the alert another thread stored meanwhile
ThreadInsert(t) ==
    /\ threads[t].pc = "insert"
    /\ LET alert == NewAlert(Head(threads[t].rows), active_alerts)
       IN  /\ active_alerts' = PutAlert(active_alerts, alert)
           /\ owner' = PutOwner(owner, alert.request_id, t)
           /\ threads' = [threads EXCEPT ![t].pc = "check",
                                         ![t].rows = Tail(@),
                                         ![t].new = Append(@, alert)]
    /\ UNCHANGED <<now, alert_history, service_vars>>

\* the detection returns: lines 370-371, or on to the loop
ThreadDetected(t) ==
    /\ threads[t].pc = "check"
    /\ threads[t].rows = <<>>
    /\ threads' = [threads EXCEPT
                     ![t].pc = IF threads[t].new = <<>> THEN "returned" ELSE "loop"]
    /\ UNCHANGED <<now, active_alerts, alert_history, owner, service_vars>>

\* the loop of lines 373-397 over the alert objects of the thread: alerts is
\* the map, in which the object of the thread is seen only while the map
\* holds it
RECURSIVE ThreadLoop(_, _, _, _, _)
ThreadLoop(list, st, t, donors, system) ==
    IF list = <<>> THEN st
    ELSE LET alert == Head(list)
             rid == alert.request_id
             res == find_matching_donors_for_alert(alert, donors, system)
             held == rid \in DOMAIN st.alerts /\ owner[rid] = t
             Put(a) == IF held THEN [st.alerts EXCEPT ![rid] = a] ELSE st.alerts
         IN  IF res.raised
             THEN ThreadLoop(Tail(list),
                             [st EXCEPT !.alerts = Put(MarkError(alert)),
                                        !.history = HistoryAfterFault(@, alert)],
                             t, donors, system)
             ELSE IF res.matches # <<>>
             THEN ThreadLoop(Tail(list),
                             [alerts |-> Put(MarkNotified(alert, res.matches)),
                              history |-> Append(st.history,
                                                 HistoryEntry(alert, res.matches)),
                              dispatched |-> Append(st.dispatched, rid)],
                             t, donors, system)
             ELSE ThreadLoop(Tail(list),
                             [st EXCEPT !.alerts = Put(AfterNoCandidates(alert)),
                                        !.history = Append(@, HistoryEntry(alert, <<>>))],
                             t, donors, system)

ThreadProcess(t, donors) ==
    /\ threads[t].pc = "loop"
    /\ LET st == ThreadLoop(threads[t].new,
                            [alerts |-> active_alerts, history |-> alert_history,
                             dispatched |-> <<>>],
                            t, donors, matching_system)
       IN  /\ active_alerts' = st.alerts
           /\ alert_history' = st.history
           /\ threads' = [threads EXCEPT ![t].pc = "cleanup",
                                         ![t].dispatched = st.dispatched]
    /\ UNCHANGED <<now, owner, service_vars>>

\* _cleanup_expired_alerts: current_time is read and the loop creates the
\* iterator of self.active_alerts.items(), which keeps the size of the dict
ThreadScanStart(t) ==
    /\ threads[t].pc = "cleanup"
    /\ threads' = [threads EXCEPT ![t].pc = "scan",
                                  ![t].current_time = now,
                                  ![t].scan_size = Cardinality(DOMAIN active_alerts)]
    /\ UNCHANGED <<now, active_alerts, alert_history, owner, service_vars>>

\* the iteration: RuntimeError (dictionary changed size during iteration)
\* when the size has changed since the iterator was created
ScanRaises(t) == Cardinality(DOMAIN active_alerts) # threads[t].scan_size

ThreadScan(t) ==
    /\ threads[t].pc = "scan"
    /\ threads' = IF ScanRaises(t)
                  THEN [threads EXCEPT ![t].pc = "raised"]
                  ELSE [threads EXCEPT
                          ![t].pc = "delete",
                          ![t].expired =
                             {r \in DOMAIN active_alerts :
                                IsExpired(active_alerts[r], threads[t].current_time)}]
    /\ UNCHANGED <<now, active_alerts, alert_history, owner, service_vars>>

\* del self.active_alerts[request_id] for one of expired_alerts: KeyError
\* when another thread has removed it
ThreadDelete(t) ==
    /\ threads[t].pc = "delete"
    /\ \E r \in threads[t].expired :
          IF r \in DOMAIN active_alerts
          THEN /\ active_alerts' = [q \in DOMAIN active_alerts \ {r} |-> active_alerts[q]]
               /\ threads' = [threads EXCEPT ![t].expired = @ \ {r}]
          ELSE /\ threads' = [threads EXCEPT ![t].pc = "raised"]
               /\ UNCHANGED active_alerts
    /\ UNCHANGED <<now, alert_history, owner, service_vars>>

ThreadReturn(t) ==
    /\ threads[t].pc = "delete"
    /\ threads[t].expired = {}
    /\ threads' = [threads EXCEPT ![t].pc = "returned"]
    /\ UNCHANGED <<now, active_alerts, alert_history, owner, service_vars>>

NextThreads ==
    \/ \E i \in ThreadInstants : Tick(i)
    \/ \E t \in Threads, df \in ThreadFrames : ThreadStart(t, df)
    \/ \E t \in Threads : ThreadCheck(t)
    \/ \E t \in Threads : ThreadInsert(t)
    \/ \E t \in Threads : ThreadDetected(t)
    \/ \E t \in Threads, donors \in DonorFrames : ThreadProcess(t, donors)
    \/ \E t \in Threads : ThreadScanStart(t)
    \/ \E t \in Threads : ThreadScan(t)
    \/ \E t \in Threads : ThreadDelete(t)
    \/ \E t \in Threads : ThreadReturn(t)

SpecThreads == InitThreads /\ [][NextThreads]_vars

(***************************************************************************)
(* Calls on PatientDonorMatching: the arguments are drawn in the initial   *)
(* state, and one call applies the function to them.                       *)
(***************************************************************************)
BloodTypes == {"O-", "O+", "A-", "A+", "B-", "B+", "AB-", "AB+"}

\* a blood type the compatibility table has no entry for
UnknownType == "XX"

Patient(bt, urgency, has_coords, pos) ==
    [blood_type_required |-> bt, urgency_level |-> urgency,
     has_coords |-> has_coords, pos |-> pos]

ScorePatients ==
    {Patient(bt, u, TRUE, 0) : bt \in BloodTypes \cup {UnknownType},
                               u \in {"LOW", "HIGH", "CRITICAL", Missing}}

ScoreDonors ==
    UNION { {Donor("S1", bt, "Available", "None", 0, 30, 90, 80, 70),
             Donor("S2", bt, "Available", "Diabetes", 0, 70, 0, 0, 10),
             Donor("S3", bt, "Available", "None", 0, 17, 100, 100, 0 - 1)}
            : bt \in BloodTypes \cup {UnknownType} }

\* the ages and the days since the last donation at the limits of the
\* factors (-1: no last_donation_date), on an O- donor
BoundaryAges == {17, 18, 45, 46, 65, 66}

BoundaryDays == {0 - 1, 29, 30, 55, 56}

BoundaryDonors ==
    {Donor("S4", "O-", "Available", h, 0, a, p[1], p[2], d) :
        h \in {"None", "Diabetes"}, a \in BoundaryAges, d \in BoundaryDays,
        p \in {<<90, 80>>, <<0, 100>>}}

ScoreDistances ==
    {[nan |-> FALSE, km |-> 5], [nan |-> FALSE, km |-> 10],
     [nan |-> FALSE, km |-> 30], [nan |-> FALSE, km |-> 51], NaNDistance}

ScoreInputs ==
    [op : {"score"}, patient : ScorePatients,
     donor : ScoreDonors \cup BoundaryDonors, distance : ScoreDistances]

D7 == Donor("D7", "A+", "Available", "None", 5, 30, 90, 80, 70)

D8 == Donor("D8", "A-", "Available", "None", 60, 50, 0, 0, 10)

FindCatalogue == {D1, D2, D3, D4, D5, D7, D8}

\* the frames of at most MaxPool rows, no donor twice
FindPools ==
    {p \in UNION {[1..n -> FindCatalogue] : n \in 0..MaxPool} :
        \A i, j \in 1..Len(p) : i # j => p[i] # p[j]}

FindPatients ==
    {Patient("A+", "CRITICAL", TRUE, 0), Patient("A+", "LOW", TRUE, 0),
     Patient("O-", "HIGH", TRUE, 20), Patient(UnknownType, "HIGH", TRUE, 0)}

\* min_score, in points: 0, the 30.0 and 50.0 of the callers, and 150
MinScores == {0, 30, 50, 150}

FindInputs ==
    [op : {"find"}, patient : FindPatients, donors : FindPools,
     max_matches : 0..MaxMatchesBound, min_score : MinScores]

\* the donors of a large pool for find_emergency_matches: O- donors alike but
\* for the place, the farthest first, 5 km apart
EmergencyPoolSize == 12

EmergencyDonorIds ==
    <<"E01", "E02", "E03", "E04", "E05", "E06", "E07", "E08", "E09", "E10",
      "E11", "E12", "E13", "E14">>

EmergencyPool ==
    [i \in 1..EmergencyPoolSize |->
        Donor(EmergencyDonorIds[i], "O-", "Available", "None",
              5 * (EmergencyPoolSize + 1 - i), 30, 90, 80, 70)]

EmergencyPools ==
    {<<>>, EmergencyPool, SubSeq(EmergencyPool, EmergencyPoolSize, EmergencyPoolSize),
     <<D1, D2, D3>>, <<D3, D8, D7, D1>>, <<D5, D4>>}

EmergencyRequests ==
    {[blood_type_needed |-> bt, urgency_level |-> u, has_coords |-> c, pos |-> 0] :
        bt \in {"A+", "O-", UnknownType}, u \in {"LOW", "HIGH", "CRITICAL"},
        c \in BOOLEAN}

EmergencyInputs ==
    [op : {"emergency"}, request : EmergencyRequests, donors : EmergencyPools]

\* two calls of calculate_matching_score that differ in the date of the last
\* donation only
RecencyInputs ==
    [op : {"recency"}, patient : ScorePatients, donor : ScoreDonors,
     distance : ScoreDistances]

\* batches of at most MaxBatch patients
BatchPatients ==
    {[patient_id |-> "P1", blood_type_required |-> "A+", urgency_level |-> "CRITICAL",
      has_coords |-> TRUE, pos |-> 0],
     [patient_id |-> "P2", blood_type_required |-> "O-", urgency_level |-> "HIGH",
      has_coords |-> TRUE, pos |-> 20],
     [patient_id |-> "P3", blood_type_required |-> "AB+", urgency_level |-> "LOW",
      has_coords |-> TRUE, pos |-> 0]}

BatchInputs ==
    [op : {"batch"},
     patients : UNION {[1..n -> BatchPatients] : n \in 0..MaxBatch},
     donors : {<<>>, <<D1, D2, D3>>, <<D2, D7, D1, D8>>},
     max_matches_per_patient : {1, 5}]

\* check_blood_compatibility on every pair of types, known or not
CompatInputs ==
    [op : {"compat"}, patient_type : BloodTypes \cup {UnknownType},
     donor_type : BloodTypes \cup {UnknownType}]

InitMatch ==
    /\ m_in \in ScoreInputs \cup FindInputs \cup CompatInputs \cup EmergencyInputs
                 \cup RecencyInputs \cup BatchInputs
    /\ m_out = NoCall
    /\ threads = NoThreads
    /\ owner = <<>>
    /\ now = 0
    /\ config_channels = <<"email", "sms">>
    /\ matching_system = "None"
    /\ active_alerts = <<>>
    /\ alert_history = <<>>
    /\ pc = "idle"
    /\ new_alerts = <<>>
    /\ idx = 0
    /\ donors_df = NoFrame
    /\ in_event_loop = FALSE
    /\ matched = <<>>
    /\ tasks = <<>>
    /\ pass_log = <<>>
    /\ hist_mark = 0
    /\ detect_log = NoSkips

CallScore ==
    /\ m_in.op = "score"
    /\ m_out = NoCall
    /\ m_out' = [op |-> "score",
                 score |-> calculate_matching_score(m_in.patient, m_in.donor,
                                                    m_in.distance)]
    /\ UNCHANGED <<m_in, alert_vars, thread_vars>>

CallFindMatches ==
    /\ m_in.op = "find"
    /\ m_out = NoCall
    /\ m_out' = [op |-> "find",
                 matches |-> find_matches(m_in.patient, m_in.donors,
                                          m_in.max_matches,
                                          m_in.min_score * ScoreScale)]
    /\ UNCHANGED <<m_in, alert_vars, thread_vars>>

CallCompat ==
    /\ m_in.op = "compat"
    /\ m_out = NoCall
    /\ m_out' = [op |-> "compat",
                 result |-> check_blood_compatibility(m_in.patient_type,
                                                      m_in.donor_type)]
    /\ UNCHANGED <<m_in, alert_vars, thread_vars>>

CallEmergency ==
    /\ m_in.op = "emergency"
    /\ m_out = NoCall
    /\ m_out' = [op |-> "emergency",
                 recommendations |-> find_emergency_matches(m_in.request, m_in.donors)]
    /\ UNCHANGED <<m_in, alert_vars, thread_vars>>

\* the donor of m_in scored twice: last donation 10 days ago, and 60
CallScoreRecency ==
    /\ m_in.op = "recency"
    /\ m_out = NoCall
    /\ m_out' = [op |-> "recency",
                 score10 |-> calculate_matching_score(
                                 m_in.patient, [m_in.donor EXCEPT !.days_since = 10],
                                 m_in.distance),
                 score60 |-> calculate_matching_score(
                                 m_in.patient, [m_in.donor EXCEPT !.days_since = 60],
                                 m_in.distance)]
    /\ UNCHANGED <<m_in, alert_vars, thread_vars>>

CallBatch ==
    /\ m_in.op = "batch"
    /\ m_out = NoCall
    /\ LET res == batch_match_patients(m_in.patients, m_in.donors,
                                       m_in.max_matches_per_patient)
       IN  m_out' = [op |-> "batch", returned |-> res.returned,
                     printed_total |-> res.printed_total]
    /\ UNCHANGED <<m_in, alert_vars, thread_vars>>

NextMatch ==
    \/ CallScore
    \/ CallFindMatches
    \/ CallCompat
    \/ CallEmergency
    \/ CallScoreRecency
    \/ CallBatch

SpecMatch == InitMatch /\ [][NextMatch]_vars

(***************************************************************************)
(* Properties of PatientDonorMatching, under SpecMatch.                    *)
(***************************************************************************)
\* C9: calculate_matching_score returns exactly 0 for every incompatible
\* pair, a blood type absent from the compatibility table included, and a
\* score above 0 implies check_blood_compatibility is true.
C9_IncompatibleScoresZero ==
    m_out.op = "score" =>
        LET compatible ==
                check_blood_compatibility(m_in.patient.blood_type_required,
                                          m_in.donor.blood_type)
        IN  /\ ~compatible => m_out.score = 0
            /\ m_out.score > 0 => compatible
            /\ m_in.patient.blood_type_required \notin BloodTypes => m_out.score = 0
            /\ m_in.donor.blood_type \notin BloodTypes => m_out.score = 0

\* a patient type absent from the table was scored against an O- donor: 0
C9_Witness ==
    /\ m_out.op = "score"
    /\ m_in.patient.blood_type_required = UnknownType
    /\ m_in.donor.blood_type = "O-"
    /\ m_in.patient.urgency_level = "CRITICAL"
    /\ m_out.score = 0

RowOf(request_id) ==
    CHOOSE row \in Range(RequestRows) : row.request_id = request_id

\* the entries of pass_log of one outcome
LogOf(outcome) == {i \in 1..Len(pass_log) : pass_log[i].outcome = outcome}

\* alert.status, alert.matched_donors and alert.notification_sent as the
\* constructor of EmergencyAlert leaves them
IsFresh(alert) ==
    /\ alert.status = "active"
    /\ alert.matched_donors = NoDonors
    /\ alert.notification_sent = FALSE

\* C1: the active set holds at most one alert per request_id (each alert is
\* stored under its own request_id, and a call returns no request twice), and
\* a detection (by detect_emergency_requests or process_emergency_requests)
\* leaves every alert already tracked as it was and does not return it.
C1_IdempotentDetection ==
    /\ [](/\ \A r \in DOMAIN active_alerts : active_alerts[r].request_id = r
          /\ \A i, j \in 1..Len(new_alerts) : i # j => new_alerts[i] # new_alerts[j])
    /\ [][pc = "idle" =>
            \A r \in DOMAIN active_alerts :
                r \in DOMAIN active_alerts' =>
                    /\ active_alerts'[r] = active_alerts[r]
                    /\ r \notin Range(new_alerts')]_vars

\* a call detected REQ5 and passed over the row of REQ1, tracked and notified
\* since an earlier call
C1_Witness ==
    /\ pc = "loop"
    /\ "REQ1" \in detect_log.tracked
    /\ "REQ1" \in DOMAIN active_alerts
    /\ active_alerts["REQ1"].notification_sent
    /\ new_alerts = <<"REQ5">>

\* C2: once the dispatch for an alert with candidates completes, the status
\* of the alert is `notified` and its matched_donors is the candidate list.
C2_DispatchMarksNotified ==
    \A i \in LogOf("dispatched") :
        LET alert == active_alerts[pass_log[i].request_id]
        IN  /\ alert.status = "notified"
            /\ alert.matched_donors = SomeDonors(pass_log[i].candidates)

\* C3: at the end of the loop of a pass, alert_history has gained exactly
\* one entry for each alert the pass attempted.
C3_OneHistoryEntryPerAlert ==
    pc = "cleanup" => Len(alert_history) - hist_mark = Len(new_alerts)

\* C4: a run of _cleanup_expired_alerts removes every alert older than
\* alert_expiry_hours, whatever its status, keeps every other alert as it
\* is, adds none, and leaves alert_history alone.
C4_CleanupRemovesExactlyExpired ==
    [][(CleanupCall \/ CleanupStep) =>
        /\ \A r \in DOMAIN active_alerts :
              IF now - active_alerts[r].timestamp > alert_expiry_hours * SecondsPerHour
              THEN r \notin DOMAIN active_alerts'
              ELSE /\ r \in DOMAIN active_alerts'
                   /\ active_alerts'[r] = active_alerts[r]
        /\ DOMAIN active_alerts' \subseteq DOMAIN active_alerts
        /\ alert_history' = alert_history]_vars

\* at 24h and one second the alert of REQ1 (timestamp 0, processed earlier)
\* is gone, and the alert of REQ2, in status error, is still there
C4_Witness ==
    /\ pc = "idle"
    /\ now = alert_expiry_hours * SecondsPerHour + 1
    /\ "REQ1" \notin DOMAIN active_alerts
    /\ \E i \in 1..Len(alert_history) : alert_history[i].timestamp = 0
    /\ "REQ2" \in DOMAIN active_alerts
    /\ active_alerts["REQ2"].status = "error"

OutcomeAlone(alert) ==
    LET res == find_matching_donors_for_alert(alert, donors_df, matching_system)
    IN  IF res.raised \/ (res.matches # <<>> /\ in_event_loop)
        THEN [outcome |-> "error", candidates |-> res.matches]
        ELSE IF res.matches # <<>>
        THEN [outcome |-> "dispatched", candidates |-> res.matches]
        ELSE [outcome |-> "no_candidates", candidates |-> <<>>]

\* the history entries a pass adds for the alerts of its log that no fault hit
RECURSIVE HistoryOfLog(_)
HistoryOfLog(log) ==
    IF log = <<>> THEN <<>>
    ELSE LET e == Head(log)
         IN  (IF e.outcome = "error" THEN <<>>
              ELSE <<HistoryEntry(active_alerts[e.request_id], e.candidates)>>)
               \o HistoryOfLog(Tail(log))

\* C6: at the end of the loop of a pass every new alert was attempted, in
\* order; an alert a fault hit is in status error; and every other alert
\* has the outcome, the candidates, the marking and the history entry that
\* it gets when it is processed alone.
C6_FaultIsolatedPerAlert ==
    pc = "cleanup" =>
        /\ Len(pass_log) = Len(new_alerts)
        /\ \A i \in 1..Len(pass_log) :
              LET r == new_alerts[i]
                  alert == active_alerts[r]
                  alone == OutcomeAlone(alert)
              IN  /\ pass_log[i].request_id = r
                  /\ pass_log[i].outcome = alone.outcome
                  /\ pass_log[i].candidates = alone.candidates
                  /\ alone.outcome = "error" =>
                        /\ alert.status = "error"
                        /\ ~alert.notification_sent
                  /\ alone.outcome = "dispatched" =>
                        /\ alert.status = "active"
                        /\ alert.notification_sent
                        /\ alert.matched_donors = SomeDonors(alone.candidates)
                  /\ alone.outcome = "no_candidates" => IsFresh(alert)
        /\ SubSeq(alert_history, hist_mark + 1, Len(alert_history)) = HistoryOfLog(pass_log)

\* the first alert of the pass raised in matching, the second was dispatched
C6_Witness ==
    /\ pc = "cleanup"
    /\ Len(pass_log) = 2
    /\ ~in_event_loop
    /\ pass_log[1].outcome = "error"
    /\ active_alerts[new_alerts[1]].status = "error"
    /\ pass_log[2].outcome = "dispatched"
    /\ active_alerts[new_alerts[2]].notification_sent

\* C7: a detection creates an alert for a request if and only if the request
\* is not tracked, its urgency is HIGH or CRITICAL and its timestamp is at
\* most one hour before the current time; the alert is created in status
\* active with matched_donors null and notification_sent false.
C7_DetectCreatesIffEligible ==
    /\ [](pc = "loop" =>
            /\ \A r \in detect_log.tracked : r \in DOMAIN active_alerts
            /\ \A r \in detect_log.old :
                  now - RowOf(r).timestamp > RecencySeconds
            /\ \A r \in detect_log.not_urgent :
                  /\ UrgencyOf(RowOf(r)) \notin {"HIGH", "CRITICAL"}
                  /\ now - RowOf(r).timestamp <= RecencySeconds
            /\ \A r \in (detect_log.old \cup detect_log.not_urgent) \ detect_log.tracked :
                  r \notin DOMAIN active_alerts
            /\ \A i \in 1..Len(new_alerts) :
                  /\ new_alerts[i] \in DOMAIN active_alerts
                  /\ IsFresh(active_alerts[new_alerts[i]]))
    /\ [][pc = "idle" =>
            \A r \in DOMAIN active_alerts' \ DOMAIN active_alerts :
                LET alert == active_alerts'[r]
                IN  /\ IsFresh(alert)
                    /\ alert.request_id = r
                    /\ alert.urgency_level \in {"HIGH", "CRITICAL"}
                    /\ alert.urgency_level = RowOf(r).urgency_level
                    /\ alert.timestamp = RowOf(r).timestamp
                    /\ now - alert.timestamp <= RecencySeconds]_vars

\* at exactly one hour REQ1 (CRITICAL, timestamp 0) got an alert and the row
\* of REQ3 (LOW) was passed over
C7_Witness ==
    /\ pc = "loop"
    /\ now = RecencySeconds
    /\ new_alerts = <<"REQ1">>
    /\ detect_log.not_urgent = {"REQ3"}
    /\ IsFresh(active_alerts["REQ1"])
    /\ "REQ3" \notin DOMAIN active_alerts

\* C8: an alert for which matching returned no candidates has no channel
\* invoked and stays in status active with matched_donors null and
\* notification_sent false.
C8_NoCandidatesStaysActive ==
    \A i \in LogOf("no_candidates") :
        /\ pass_log[i].tasks = <<>>
        /\ pass_log[i].candidates = <<>>
        /\ IsFresh(active_alerts[pass_log[i].request_id])
        /\ (pc \in {"match", "cleanup"} /\ i = Len(pass_log)) => tasks = <<>>

\* the pass took REQ5 (O-) with only donors that are unavailable, too far
\* or excluded: nothing matched
C8_Witness ==
    /\ pc = "cleanup"
    /\ new_alerts = <<"REQ5">>
    /\ Len(donors_df.rows) = 3
    /\ LogOf("no_candidates") = {1}
    /\ IsFresh(active_alerts["REQ5"])
    /\ Len(alert_history) = hist_mark + 1

\* C11: every candidate find_matches returns has a donor blood type that is
\* compatible with the type the patient requires, per the compatibility
\* table, and a distance that does not exceed max_distance.
C11_CandidatesCompatibleAndNear ==
    m_out.op = "find" =>
        \A i \in 1..Len(m_out.matches) :
            /\ check_blood_compatibility(m_in.patient.blood_type_required,
                                         m_out.matches[i].blood_type)
            /\ DistLE(m_out.matches[i].distance_km, max_distance)

\* the Rh-positive types, and the ABO group of a type
RhPositive == {"O+", "A+", "B+", "AB+"}

ABOGroup(blood_type) ==
    CASE blood_type \in {"O-", "O+"} -> "O"
      [] blood_type \in {"A-", "A+"} -> "A"
      [] blood_type \in {"B-", "B+"} -> "B"
      [] OTHER -> "AB"

\* C12: over the 8 blood types, an O- donor is compatible with every
\* patient, an AB+ patient accepts every donor, a donor of the patient's own
\* type is compatible, an Rh-negative donor is compatible with the
\* Rh-positive patient of the same ABO group, and no Rh-positive donor is
\* compatible with an Rh-negative patient.
C12_CompatibilityTable ==
    (/\ m_out.op = "compat"
     /\ m_in.patient_type \in BloodTypes
     /\ m_in.donor_type \in BloodTypes) =>
        LET p == m_in.patient_type
            d == m_in.donor_type
        IN  /\ d = "O-" => m_out.result
            /\ p = "AB+" => m_out.result
            /\ d = p => m_out.result
            /\ (ABOGroup(d) = ABOGroup(p) /\ d \notin RhPositive /\ p \in RhPositive)
                  => m_out.result
            /\ (d \in RhPositive /\ p \notin RhPositive) => ~m_out.result

\* an A- donor for an A+ patient: compatible; the check was made
C12_Witness ==
    /\ m_out.op = "compat"
    /\ m_in.patient_type = "A+"
    /\ m_in.donor_type = "A-"
    /\ m_out.result

\* C13: for a compatible pair the score is the product
\* 100 x urgency weight x proximity weight x (0.5 + 0.5 x availability)
\* x health factor x (0.8 + 0.4 x responsiveness) x age factor x recency
\* factor, with the weights the specification lists; here each factor is
\* scaled to an integer: urgency x2, proximity x5, availability x200,
\* health x5, responsiveness x250, age x10, recency x10.
C13_ScoreIsProduct ==
    (/\ m_out.op = "score"
     /\ check_blood_compatibility(m_in.patient.blood_type_required,
                                  m_in.donor.blood_type)) =>
        LET u == m_in.patient.urgency_level
            km == m_in.distance
            donor == m_in.donor
            urgency == CASE u = "LOW" -> 2 [] u = "HIGH" -> 4
                         [] u = "CRITICAL" -> 6 [] OTHER -> 3
            proximity == IF ~km.nan /\ km.km <= 10 THEN 5
                         ELSE IF ~km.nan /\ km.km <= 50 THEN 4 ELSE 3
            availability == 100 + donor.avail_pct
            health == IF donor.health_conditions = "None" THEN 6 ELSE 4
            responsiveness == 200 + donor.resp_pct
            age == IF donor.age \in 18..45 THEN 11
                   ELSE IF donor.age > 65 THEN 9 ELSE 10
            recency == IF donor.days_since >= 56 THEN 12
                       ELSE IF donor.days_since \in 0..29 THEN 3 ELSE 10
        IN  m_out.score = urgency * proximity * availability * health
                            * responsiveness * age * recency

\* a HIGH patient and an O- donor of age 18 who donated 56 days ago, 10 km
\* away: both limits get the bonus, 100 x 2 x 1 x 0.95 x 1.2 x 1.12 x 1.1 x 1.2
C13_Witness ==
    /\ m_out.op = "score"
    /\ m_in.patient.blood_type_required = "A+"
    /\ m_in.patient.urgency_level = "HIGH"
    /\ m_in.donor.blood_type = "O-"
    /\ m_in.donor.age = 18
    /\ m_in.donor.days_since = 56
    /\ m_in.donor.health_conditions = "None"
    /\ m_in.donor.avail_pct = 90
    /\ m_in.distance = [nan |-> FALSE, km |-> 10]
    /\ m_out.score = 4 * 5 * 190 * 6 * 280 * 11 * 12

\* the patient and the donor of the end-to-end example
IsExamplePair(patient, donor) ==
    /\ patient.blood_type_required = "A+"
    /\ patient.urgency_level = "HIGH"
    /\ donor.blood_type = "O-"
    /\ donor.availability_status = "Available"
    /\ donor.health_conditions = "None"
    /\ donor.age = 30
    /\ donor.avail_pct = 90
    /\ donor.resp_pct = 80
    /\ donor.days_since = 70

\* C14 as the specification states it: the score of the example is 317.9,
\* to the precision shown (within half a point).
C14_ExampleScoreAsStated ==
    (/\ m_out.op = "score"
     /\ IsExamplePair(m_in.patient, m_in.donor)
     /\ m_in.distance = [nan |-> FALSE, km |-> 5]) =>
        Abs(m_out.score - 3179 * (ScoreScale \div 10)) <= ScoreScale \div 2

\* C14, amended: the score of the example is 337.0752, the product of the
\* factors the specification lists (100 x 2.0 x 1.0 x 0.95 x 1.2 x 1.12 x
\* 1.1 x 1.2), stored as 337.08; and find_emergency_matches returns the donor
\* in high_priority (score >= 150 and distance <= 50 km).
C14_ExampleScore ==
    /\ (/\ m_out.op = "score"
        /\ IsExamplePair(m_in.patient, m_in.donor)
        /\ m_in.distance = [nan |-> FALSE, km |-> 5]) =>
            /\ m_out.score = 3370752 * (ScoreScale \div 10000)
            /\ RoundCents(m_out.score) = 33708
    /\ (/\ m_out.op = "emergency"
        /\ m_in.request.blood_type_needed = "A+"
        /\ m_in.request.urgency_level = "HIGH"
        /\ m_in.request.has_coords
        /\ m_in.donors = SubSeq(EmergencyPool, EmergencyPoolSize, EmergencyPoolSize)) =>
            /\ Len(m_out.recommendations.high_priority) = 1
            /\ m_out.recommendations.high_priority[1].matching_score = 33708
            /\ m_out.recommendations.high_priority[1].distance_km = [nan |-> FALSE, km |-> 5]
            /\ m_out.recommendations.total_matches = 1

\* the example was scored
C14_Witness ==
    /\ m_out.op = "score"
    /\ IsExamplePair(m_in.patient, m_in.donor)
    /\ m_in.distance = [nan |-> FALSE, km |-> 5]
    /\ RoundCents(m_out.score) = 33708

\* C15: for a compatible pair, all else equal, the donor who last donated 10
\* days ago scores strictly lower than the same donor having last donated 60
\* days ago.
C15_RecentDonationScoresLower ==
    (/\ m_out.op = "recency"
     /\ check_blood_compatibility(m_in.patient.blood_type_required,
                                  m_in.donor.blood_type)) =>
        m_out.score10 < m_out.score60

\* a compatible pair scored both ways: 0.3 against 1.2, a quarter
C15_Witness ==
    /\ m_out.op = "recency"
    /\ check_blood_compatibility(m_in.patient.blood_type_required,
                                 m_in.donor.blood_type)
    /\ m_out.score10 > 0
    /\ 4 * m_out.score10 = m_out.score60
    /\ m_in.patient.urgency_level = "LOW"

\* view is the first n entries of ranked that are at the indices in keep, in
\* the order of ranked
IsFirstOf(view, ranked, keep, n) ==
    /\ Len(view) = (IF Cardinality(keep) < n THEN Cardinality(keep) ELSE n)
    /\ \A k \in 1..Len(view) :
          \E i \in keep : /\ Cardinality({j \in keep : j <= i}) = k
                          /\ view[k] = ranked[i]

\* C16: find_emergency_matches ranks with find_matches at min_score 30 and
\* returns immediate_contact = the first 3 ranked entries with urgency
\* CRITICAL and distance <= 25 km, high_priority = the first 5 with score >=
\* 150 and distance <= 50 km, backup_options = the first 10 with score >=
\* 100, each in rank order, and total_matches = the length of the ranked list.
C16_EmergencyViews ==
    m_out.op = "emergency" =>
        LET patient == [blood_type_required |-> m_in.request.blood_type_needed,
                        urgency_level |-> m_in.request.urgency_level,
                        has_coords |-> m_in.request.has_coords,
                        pos |-> m_in.request.pos]
            ranked == find_matches(patient, m_in.donors, 20, 30 * ScoreScale)
            Near(i, km) == ~ranked[i].distance_km.nan /\ ranked[i].distance_km.km <= km
            critical == {i \in 1..Len(ranked) :
                            m_in.request.urgency_level = "CRITICAL" /\ Near(i, 25)}
            high == {i \in 1..Len(ranked) :
                            ranked[i].matching_score >= 15000 /\ Near(i, 50)}
            standard == {i \in 1..Len(ranked) : ranked[i].matching_score >= 10000}
            rec == m_out.recommendations
        IN  /\ \A i \in 1..Len(ranked) : ranked[i].matching_score >= 3000
            /\ IsFirstOf(rec.immediate_contact, ranked, critical, 3)
            /\ IsFirstOf(rec.high_priority, ranked, high, 5)
            /\ IsFirstOf(rec.backup_options, ranked, standard, 10)
            /\ rec.total_matches = Len(ranked)

\* a CRITICAL request and the large pool: each view is cut to its size, and
\* the ranking is not the order of the pool
C16_Witness ==
    /\ m_out.op = "emergency"
    /\ m_in.request.urgency_level = "CRITICAL"
    /\ m_in.donors = EmergencyPool
    /\ Len(m_out.recommendations.immediate_contact) = 3
    /\ Len(m_out.recommendations.high_priority) = 5
    /\ Len(m_out.recommendations.backup_options) = 10
    /\ m_out.recommendations.total_matches > 10
    /\ m_out.recommendations.immediate_contact[1].donor_id # m_in.donors[1].donor_id

\* the sum of the match counts of the entries of a returned dictionary
RECURSIVE SumOfCounts(_, _)
SumOfCounts(returned, keys) ==
    IF keys = {} THEN 0
    ELSE LET k == CHOOSE x \in keys : TRUE
         IN  returned[k].match_count + SumOfCounts(returned, keys \ {k})

\* C17: batch_match_patients returns for each patient the list an
\* independent find_matches call returns for that patient on the same pool,
\* and the returned aggregate includes a total-match count equal to the sum
\* of the match counts of the patients.
C17_BatchIndependentWithTotal ==
    m_out.op = "batch" =>
        LET patient_ids == {m_in.patients[i].patient_id : i \in 1..Len(m_in.patients)}
        IN  /\ \A i \in 1..Len(m_in.patients) :
                  LET patient == m_in.patients[i]
                  IN  /\ patient.patient_id \in DOMAIN m_out.returned
                      /\ m_out.returned[patient.patient_id].matches
                            = find_matches(patient, m_in.donors,
                                           m_in.max_matches_per_patient,
                                           40 * ScoreScale)
            /\ "total_matches" \in DOMAIN m_out.returned
            /\ m_out.returned["total_matches"]
                  = SumOfCounts(m_out.returned, patient_ids)

\* the alert is still as created and the history says a pass found no
\* candidates for it
LeftWithoutCandidates(alert) ==
    /\ IsFresh(alert)
    /\ \E i \in 1..Len(alert_history) :
          /\ alert_history[i].alert_id = alert.alert_id
          /\ alert_history[i].timestamp = alert.timestamp
          /\ alert_history[i].matched_donors_count = 0

\* C18: an alert left active because no candidates were found is retried on
\* the next pass: when a pass gets its request again, the alert is among the
\* alerts that pass matches and dispatches.
C18_NoCandidateAlertRetried ==
    pc = "loop" =>
        \A r \in detect_log.tracked :
            (r \in DOMAIN active_alerts /\ LeftWithoutCandidates(active_alerts[r]))
                => r \in Range(new_alerts)

\* C19: an alert is marked notified (status notified, or notification_sent
\* true) only if at least one channel dispatch was attempted for it; with a
\* configuration that names no channel the service has a sink for, no alert
\* is ever marked.
C19_NotifiedOnlyAfterDispatch ==
    /\ \A r \in DOMAIN active_alerts :
          (active_alerts[r].status = "notified" \/ active_alerts[r].notification_sent)
              => \E k \in 1..Len(config_channels) : IsKnownChannel(config_channels[k])
    /\ \A i \in LogOf("dispatched") :
          LET alert == active_alerts[pass_log[i].request_id]
          IN  (alert.status = "notified" \/ alert.notification_sent)
                  => \E k \in 1..Len(pass_log[i].tasks) :
                        pass_log[i].tasks[k].sink_calls >= 1

\* C20: the marking of an alert (notification_sent, matched_donors, status)
\* changes only in a step of its dispatch at which every channel task
\* started for it has finished, and while a task of the dispatch is still
\* pending the alert is as it was created.
C20_MarkedAfterAllTasks ==
    /\ [](pc = "gather" /\ (\E k \in 1..Len(tasks) : tasks[k].state = "pending")
            => IsFresh(CurrentAlert))
    /\ [][\A r \in DOMAIN active_alerts \cap DOMAIN active_alerts' :
            (\/ active_alerts'[r].notification_sent # active_alerts[r].notification_sent
             \/ active_alerts'[r].matched_donors # active_alerts[r].matched_donors)
                => /\ pc = "gather"
                   /\ r = new_alerts[idx]
                   /\ \A k \in 1..Len(tasks) :
                         tasks[k].state = "done" /\ tasks[k].sink_calls = 1]_vars

\* the first of three tasks has finished, the others have not started, and
\* the alert is not marked
C20_Witness ==
    /\ pc = "gather"
    /\ Len(tasks) = 3
    /\ tasks[1].state = "done"
    /\ tasks[2].state = "pending"
    /\ tasks[3].state = "pending"
    /\ IsFresh(CurrentAlert)
    /\ matched # <<>>

\* C21: a channel task that never completes counts as a failure of its
\* channel alone: the dispatch still terminates and the pass goes on, so a
\* dispatch in progress can always take its next step, also while a task is
\* hung.
C21_HungTaskDoesNotBlockPass ==
    pc = "gather" => ENABLED DispatchStep

\* C22: with two passes running concurrently on one manager, the membership
\* test and the insertion of the detection are one exclusive step: no
\* request_id has an alert created and dispatched by both passes.
C22_DetectionAndCleanupExclusive ==
    \A t \in Threads : \A u \in Threads \ {t} :
        \A i \in 1..Len(threads[t].dispatched), j \in 1..Len(threads[u].dispatched) :
            threads[t].dispatched[i] # threads[u].dispatched[j]

\* C23: matched_donors of an alert is null until a dispatch assigns it, once,
\* the complete list the matching of that alert returned; no step changes
\* it afterwards.
C23_MatchedDonorsSetOnce ==
    [][\A r \in DOMAIN active_alerts \cap DOMAIN active_alerts' :
          active_alerts'[r].matched_donors # active_alerts[r].matched_donors
          => /\ active_alerts[r].matched_donors = NoDonors
             /\ pc = "gather"
             /\ r = new_alerts[idx]
             /\ matched # <<>>
             /\ matched = find_matching_donors_for_alert(
                              active_alerts[r], donors_df, matching_system).matches
             /\ active_alerts'[r].matched_donors = SomeDonors(matched)]_vars

\* an alert keeps a list of several candidates after its pass has returned
C23_Witness ==
    /\ pc = "idle"
    /\ \E r \in DOMAIN active_alerts :
          /\ active_alerts[r].matched_donors # NoDonors
          /\ Len(active_alerts[r].matched_donors.list) >= 2

\* C24: in every matching path no candidate is unavailable or has HIV/AIDS
\* or Hepatitis, and a donor of the needed blood type who is Available, in
\* range and has another health condition is eligible: the simple matching,
\* which returns up to ten donors, lists it among the candidates.
C24_OtherConditionsStayEligible ==
    pc = "gather" =>
        /\ \A j \in 1..Len(matched) :
              \E i \in 1..Len(donors_df.rows) :
                 /\ donors_df.rows[i].donor_id = matched[j].donor_id
                 /\ donors_df.rows[i].availability_status = "Available"
                 /\ donors_df.rows[i].health_conditions \notin {"HIV/AIDS", "Hepatitis"}
        /\ matching_system = "None" =>
              \A i \in 1..Len(donors_df.rows) :
                 LET donor == donors_df.rows[i]
                 IN  (/\ donor.blood_type = CurrentAlert.blood_type_needed
                      /\ donor.availability_status = "Available"
                      /\ donor.health_conditions \notin {"HIV/AIDS", "Hepatitis"}
                      /\ WithinMaxDistance(calculate_distance(PlaceOf(CurrentAlert),
                                                              PlaceOf(donor))))
                     => \E j \in 1..Len(matched) : matched[j].donor_id = donor.donor_id

\* C25: a donor record lacking a field find_matches requires is skipped and
\* the pass goes on: the call of find_matches behind the candidates of an
\* alert is never ended by the missing field.
C25_MissingFieldNeverAborts ==
    (pc = "gather" /\ matching_system = "PatientDonorMatching")
        => ~MatchingSystemRaises(CurrentAlert, donors_df)

\* C26: a task whose sink returned success records a successful
\* notification; the failure is logged only when the sink raised or
\* returned failure.
C26_SinkSuccessIsRecorded ==
    \A k \in 1..Len(tasks) :
        tasks[k].state = "done" =>
            (tasks[k].logged = "info" <=> tasks[k].sink_returned)

\* C27: every call of process_emergency_requests ends with the cleanup
\* applied: no call, the one that detects nothing new included, returns and
\* leaves an expired alert in the map.
C27_EveryCallEndsWithCleanup ==
    pc = "idle" =>
        ~ENABLED (/\ \E df \in RequestFrames : ProcessStart(df)
                  /\ pc' = "idle"
                  /\ \E r \in DOMAIN active_alerts' :
                        IsExpired(active_alerts'[r], now'))

\* C28: the alert ids are unique: no two alerts of the active set have the
\* same alert_id.
C28_AlertIdsDistinct ==
    \A r \in DOMAIN active_alerts : \A q \in DOMAIN active_alerts :
        active_alerts[r].alert_id = active_alerts[q].alert_id => r = q

\* the entries of alert_history of a request: among the rows that can give
\* an alert (REQ1, REQ2, REQ5) the timestamp names the request
HistoryOfRequest(request_id) ==
    {i \in 1..Len(alert_history) :
        alert_history[i].timestamp = RowOf(request_id).timestamp}

\* C29: over sequential passes with unchanged timestamps a request_id has at
\* most one alert_history entry, and an alert that is being dispatched has
\* none yet: each entry is added by the pass that dispatches, so a request
\* is dispatched at most once, also after the cleanup has removed its alert.
C29_OneDispatchPerRequest ==
    /\ \A i \in 1..Len(alert_history) : \A j \in 1..Len(alert_history) :
          alert_history[i].timestamp = alert_history[j].timestamp => i = j
    /\ pc \in {"match", "gather"} => HistoryOfRequest(CurrentAlert.request_id) = {}

\* REQ1 was dispatched, the cleanup has removed its alert, and a later pass
\* that holds REQ1 again passes over it
C29_Witness ==
    /\ "REQ1" \notin DOMAIN active_alerts
    /\ \E i \in HistoryOfRequest("REQ1") : alert_history[i].matched_donors_count > 0
    /\ "REQ1" \in detect_log.old

\* C30: the candidate list of the alert that is being dispatched holds each
\* donor_id at most once.
C30_CandidatesDistinct ==
    pc = "gather" =>
        \A i \in 1..Len(matched) : \A j \in 1..Len(matched) :
            matched[i].donor_id = matched[j].donor_id => i = j

====
